---- MODULE Spec2Model ----
(***************************************************************************)
(* Model of mongo/options/datakeyoptions.go: the DataKeyOptionsBuilder,    *)
(* its three setters, List(), and the application of the deferred          *)
(* mutations to a fresh DataKeyOptions record.                             *)
(*                                                                         *)
(* Go slices are modelled as headers (ptr, len, cap) over backing arrays   *)
(* kept in a heap, so that append-in-place, reallocation and the sharing   *)
(* of a backing array between dk.Opts and an earlier List() result are     *)
(* what the Go runtime does.  Argument slices are values: the caller does  *)
(* not write to a slice after handing it to a setter.                      *)
(***************************************************************************)
EXTENDS Integers, Sequences, FiniteSets

\* ---------------------------------------------------------------- bounds
MaxBuilders == 2
MaxCalls == 4
NumGoroutines == 2
MaxConcCalls == 2

\* ---------------------------------------------------------------- values
\* A nil interface{} value (the zero value of DataKeyOptions.MasterKey).
NilKey == "<nil>"

\* A nil []string / []byte (the zero value of KeyAltNames / KeyMaterial).
NilSlice == [isnil |-> TRUE, elems |-> <<>>]

SliceOf(elems) == [isnil |-> FALSE, elems |-> elems]

\* Arguments the callers pass to the setters in the state machine.
MasterKeys == {"A", "B"}
AltNames == {SliceOf(<<"b", "a", "a">>)}
Materials == {SliceOf(<<>>)}

\* A wider set of arguments, on which the mutations are checked one by one.
ArgMasterKeys == MasterKeys \cup {NilKey}
ArgAltNames == AltNames \cup {NilSlice, SliceOf(<<>>), SliceOf(<<"a", "b">>)}
ArgMaterials == Materials \cup {NilSlice, SliceOf(<<7, 0>>), SliceOf(<<0, 255, 0>>)}

\* The zero value of DataKeyOptions (new(DataKeyOptions)).
DataKeyOptions == [MasterKey |-> NilKey, KeyAltNames |-> NilSlice, KeyMaterial |-> NilSlice]

NoErr == "nil"

\* ------------------------------------------------------------- closures
\* A func(*DataKeyOptions) error value: the code it runs (kind) and the
\* variable it captured.  NoFunc is the nil func in an unused array cell.
Func(kind, captured) == [kind |-> kind, captured |-> captured]

NoFunc == Func("nil", NilKey)

\* func(opts *DataKeyOptions) error { opts.MasterKey = masterKey; return nil }
MasterKeyFn(masterKey) == Func("SetMasterKey", masterKey)

\* func(opts *DataKeyOptions) error { opts.KeyAltNames = keyAltNames; return nil }
KeyAltNamesFn(keyAltNames) == Func("SetKeyAltNames", keyAltNames)

\* func(opts *DataKeyOptions) error { opts.KeyMaterial = keyMaterial; return nil }
KeyMaterialFn(keyMaterial) == Func("SetKeyMaterial", keyMaterial)

\* A mutation written by another package against the same signature, which
\* reports a configuration error.
FailingFn == Func("fail", NilKey)

\* Variant: the closure keeps a master key that is already set.
MasterKeyBodyFirstWins(masterKey, opts) ==
    [opts |-> IF opts.MasterKey = NilKey THEN [opts EXCEPT !.MasterKey = masterKey] ELSE opts,
     err |-> NoErr]

\* Variant: the closure rejects a list that names a key twice.
KeyAltNamesBodyValidates(keyAltNames, opts) ==
    IF \E i, j \in DOMAIN keyAltNames.elems : i # j /\ keyAltNames.elems[i] = keyAltNames.elems[j]
    THEN [opts |-> opts, err |-> "error"]
    ELSE [opts |-> [opts EXCEPT !.KeyAltNames = keyAltNames], err |-> NoErr]

\* Variant: the closure also resets the alternate names.
KeyMaterialBodyResetsNames(keyMaterial, opts) ==
    [opts |-> [opts EXCEPT !.KeyMaterial = keyMaterial, !.KeyAltNames = SliceOf(<<>>)],
     err |-> NoErr]

\* The bodies of the three closures: the record afterwards and the error.
MasterKeyBody(masterKey, opts) == [opts |-> [opts EXCEPT !.MasterKey = masterKey], err |-> NoErr]

KeyAltNamesBody(keyAltNames, opts) == [opts |-> [opts EXCEPT !.KeyAltNames = keyAltNames], err |-> NoErr]

KeyMaterialBody(keyMaterial, opts) == [opts |-> [opts EXCEPT !.KeyMaterial = keyMaterial], err |-> NoErr]

\* Calling the mutation f on the record opts.
Call(f, opts) ==
    CASE f.kind = "SetMasterKey" -> MasterKeyBody(f.captured, opts)
      [] f.kind = "SetKeyAltNames" -> KeyAltNamesBody(f.captured, opts)
      [] f.kind = "SetKeyMaterial" -> KeyMaterialBody(f.captured, opts)
      [] OTHER -> [opts |-> opts, err |-> "error"]

\* --------------------------------------------------------------- slices
\* A slice header is (ptr, len, cap).  Backing arrays live in a heap with one
\* region per builder; ptr = <<region, index>> and NilPtr is the nil pointer.
NilPtr == <<0, 0>>

\* The nil slice header: the zero value of DataKeyOptionsBuilder.Opts.
NilOpts == [ptr |-> NilPtr, len |-> 0, cap |-> 0]

\* Capacity in elements after rounding the allocation up to a size class
\* (8-byte elements, classes 8,16,24,32,48,64,80,...).
RoundUp(n) == IF n <= 4 THEN n ELSE IF n % 2 = 0 THEN n ELSE n + 1

\* runtime.growslice: the capacity of the reallocated array.
GrowCap(oldCap, newLen) == IF newLen > 2 * oldCap THEN RoundUp(newLen) ELSE RoundUp(2 * oldCap)

Allocated(mem, p) == p[1] \in 1..Len(mem) /\ p[2] \in 1..Len(mem[p[1]])

\* s[0:n] lies inside the array s points to.
InBounds(mem, s, n) == n = 0 \/ (Allocated(mem, s.ptr) /\ n <= Len(mem[s.ptr[1]][s.ptr[2]]))

\* The elements s[0:len] read through the header s.
Elems(mem, s) == [i \in 1..s.len |-> mem[s.ptr[1]][s.ptr[2]][i]]

\* append(s, f), allocating in region dk: the heap afterwards, the returned
\* header, and whether memory outside an array was touched (fault).
GoAppend(mem, s, f, dk) ==
    LET newLen == s.len + 1
        newCap == GrowCap(s.cap, newLen)
    IN  IF newLen <= s.cap
        THEN IF InBounds(mem, s, newLen)
             THEN [arrs |-> [mem EXCEPT ![s.ptr[1]][s.ptr[2]][newLen] = f],
                   s |-> [ptr |-> s.ptr, len |-> newLen, cap |-> s.cap],
                   fault |-> FALSE]
             ELSE [arrs |-> mem, s |-> s, fault |-> TRUE]
        ELSE IF InBounds(mem, s, s.len)
             THEN [arrs |-> [mem EXCEPT ![dk] = Append(@, [i \in 1..newCap |->
                                IF i <= s.len THEN mem[s.ptr[1]][s.ptr[2]][i]
                                ELSE IF i = newLen THEN f ELSE NoFunc])],
                   s |-> [ptr |-> <<dk, Len(mem[dk]) + 1>>, len |-> newLen, cap |-> newCap],
                   fault |-> FALSE]
             ELSE [arrs |-> mem, s |-> s, fault |-> TRUE]

\* ---------------------------------------------------------------- state
VARIABLES
    builders,   \* heap of DataKeyOptionsBuilder structs: builders[dk].Opts
    arrs,       \* heap of backing arrays of []func(*DataKeyOptions) error
    ref,        \* ref[b]: the builder returned by the last call of the chain begun at b
    calls,      \* calls[b]: the mutations of the setter calls made through chain b, in order
    rec,        \* the consumer: the slice List() returned to it and what applying it gave
    fault,      \* memory was accessed outside an array
    gor,        \* gor[g]: where goroutine g is inside a setter call it runs unsynchronized
    raced       \* raced[b]: two setter calls on builder b have overlapped

vars == <<builders, arrs, ref, calls, rec, fault, gor, raced>>

Builders == 1..Len(builders)

RECURSIVE SumLen(_, _)
SumLen(log, b) == IF b = 0 THEN 0 ELSE Len(log[b]) + SumLen(log, b - 1)

TotalCalls == SumLen(calls, Len(calls))

\* The words of a slice header, loaded and stored one at a time.
Words == {"ptr", "len", "cap"}

Goroutines == 1..NumGoroutines

\* A goroutine outside any setter call.
Idle == [pc |-> "idle", dk |-> 0, f |-> NoFunc, todo |-> {}, s |-> NilOpts]

\* The consumer before it has read any builder.
NoRec == [dk |-> 0, s |-> NilOpts, n |-> 0, scratch |-> DataKeyOptions,
          isnil |-> TRUE, args |-> DataKeyOptions, err |-> NoErr]

\* ----------------------------------------------------------- operations
\* Variant: List() hands the mutations over and empties the builder.
ListDrain(dk) == [ret |-> builders[dk].Opts, builders |-> [builders EXCEPT ![dk].Opts = NilOpts]]

\* func (dk *DataKeyOptionsBuilder) List(): return dk.Opts
\* The value returned and the builders after the call.
List(dk) == [ret |-> builders[dk].Opts, builders |-> builders]

\* The mutations a header denotes.
Mutations(s) == Elems(arrs, s)

Init ==
    /\ builders = <<>>
    /\ arrs = <<>>
    /\ ref = <<>>
    /\ calls = <<>>
    /\ rec = NoRec
    /\ fault = FALSE
    /\ gor = [g \in Goroutines |-> Idle]
    /\ raced = <<>>

\* func DataKey(): return &DataKeyOptionsBuilder{}
DataKey ==
    /\ Len(builders) < MaxBuilders
    /\ builders' = Append(builders, [Opts |-> NilOpts])
    /\ arrs' = Append(arrs, <<>>)
    /\ ref' = Append(ref, Len(builders) + 1)
    /\ calls' = Append(calls, <<>>)
    /\ raced' = Append(raced, FALSE)
    /\ UNCHANGED <<rec, fault, gor>>

\* Variant: the setter returns a copy of the builder instead of dk.
SetMasterKeyCopy(b, masterKey) ==
    LET dk == ref[b]
        r == GoAppend(arrs, builders[dk].Opts, MasterKeyFn(masterKey), dk)
        copy == Len(builders) + 1
    IN  /\ TotalCalls < MaxCalls
        /\ builders' = Append([builders EXCEPT ![dk].Opts = r.s], [Opts |-> r.s])
        /\ arrs' = Append(r.arrs, <<>>)
        /\ fault' = (fault \/ r.fault)
        /\ ref' = Append([ref EXCEPT ![b] = copy], copy)
        /\ calls' = Append([calls EXCEPT ![b] = Append(@, MasterKeyFn(masterKey))], <<>>)
        /\ raced' = Append(raced, FALSE)
        /\ UNCHANGED <<rec, gor>>

\* Variant: a master key set twice in a row replaces the earlier mutation
\* in the array instead of being appended.
SetMasterKeyReplace(b, masterKey) ==
    LET dk == ref[b]
        s == builders[dk].Opts
        again == s.len > 0 /\ Elems(arrs, s)[s.len].kind = "SetMasterKey"
        r == GoAppend(arrs, IF again THEN [s EXCEPT !.len = @ - 1] ELSE s, MasterKeyFn(masterKey), dk)
    IN  /\ TotalCalls < MaxCalls
        /\ builders' = [builders EXCEPT ![dk].Opts = r.s]
        /\ arrs' = r.arrs
        /\ fault' = (fault \/ r.fault)
        /\ ref' = [ref EXCEPT ![b] = dk]
        /\ calls' = [calls EXCEPT ![b] = Append(@, MasterKeyFn(masterKey))]
        /\ UNCHANGED <<rec, gor, raced>>

\* func (dk *DataKeyOptionsBuilder) SetMasterKey(masterKey interface{}),
\* called on the reference chain b holds:
\* dk.Opts = append(dk.Opts, func...); return dk
SetMasterKey(b, masterKey) ==
    LET dk == ref[b]
        r == GoAppend(arrs, builders[dk].Opts, MasterKeyFn(masterKey), dk)
    IN  /\ TotalCalls < MaxCalls
        /\ builders' = [builders EXCEPT ![dk].Opts = r.s]
        /\ arrs' = r.arrs
        /\ fault' = (fault \/ r.fault)
        /\ ref' = [ref EXCEPT ![b] = dk]
        /\ calls' = [calls EXCEPT ![b] = Append(@, MasterKeyFn(masterKey))]
        /\ UNCHANGED <<rec, gor, raced>>

\* Variant: the setter assigns a one-element slice instead of appending.
SetKeyAltNamesAssign(b, keyAltNames) ==
    LET dk == ref[b]
        r == GoAppend(arrs, NilOpts, KeyAltNamesFn(keyAltNames), dk)
    IN  /\ TotalCalls < MaxCalls
        /\ builders' = [builders EXCEPT ![dk].Opts = r.s]
        /\ arrs' = r.arrs
        /\ fault' = (fault \/ r.fault)
        /\ ref' = [ref EXCEPT ![b] = dk]
        /\ calls' = [calls EXCEPT ![b] = Append(@, KeyAltNamesFn(keyAltNames))]
        /\ UNCHANGED <<rec, gor, raced>>

\* func (dk *DataKeyOptionsBuilder) SetKeyAltNames(keyAltNames []string)
SetKeyAltNames(b, keyAltNames) ==
    LET dk == ref[b]
        r == GoAppend(arrs, builders[dk].Opts, KeyAltNamesFn(keyAltNames), dk)
    IN  /\ TotalCalls < MaxCalls
        /\ builders' = [builders EXCEPT ![dk].Opts = r.s]
        /\ arrs' = r.arrs
        /\ fault' = (fault \/ r.fault)
        /\ ref' = [ref EXCEPT ![b] = dk]
        /\ calls' = [calls EXCEPT ![b] = Append(@, KeyAltNamesFn(keyAltNames))]
        /\ UNCHANGED <<rec, gor, raced>>

\* Variant: the setter also writes the key material into the record the
\* consumer already holds.
SetKeyMaterialEager(b, keyMaterial) ==
    LET dk == ref[b]
        r == GoAppend(arrs, builders[dk].Opts, KeyMaterialFn(keyMaterial), dk)
    IN  /\ TotalCalls < MaxCalls
        /\ builders' = [builders EXCEPT ![dk].Opts = r.s]
        /\ arrs' = r.arrs
        /\ fault' = (fault \/ r.fault)
        /\ ref' = [ref EXCEPT ![b] = dk]
        /\ calls' = [calls EXCEPT ![b] = Append(@, KeyMaterialFn(keyMaterial))]
        /\ rec' = [rec EXCEPT !.args.KeyMaterial = keyMaterial, !.scratch.KeyMaterial = keyMaterial]
        /\ UNCHANGED <<gor, raced>>

\* func (dk *DataKeyOptionsBuilder) SetKeyMaterial(keyMaterial []byte)
SetKeyMaterial(b, keyMaterial) ==
    LET dk == ref[b]
        r == GoAppend(arrs, builders[dk].Opts, KeyMaterialFn(keyMaterial), dk)
    IN  /\ TotalCalls < MaxCalls
        /\ builders' = [builders EXCEPT ![dk].Opts = r.s]
        /\ arrs' = r.arrs
        /\ fault' = (fault \/ r.fault)
        /\ ref' = [ref EXCEPT ![b] = dk]
        /\ calls' = [calls EXCEPT ![b] = Append(@, KeyMaterialFn(keyMaterial))]
        /\ UNCHANGED <<rec, gor, raced>>

\* Variant: application goes on after a failing mutation and reports the
\* last error.
RECURSIVE ApplyFromContinue(_, _, _)
ApplyFromContinue(fns, i, opts) ==
    IF i > Len(fns) THEN [opts |-> opts, n |-> i - 1, err |-> NoErr]
    ELSE LET r == Call(fns[i], opts)
             rest == ApplyFromContinue(fns, i + 1, r.opts)
         IN  IF r.err # NoErr THEN [rest EXCEPT !.err = r.err] ELSE rest

\* Applying mutations fns[i..] in order to the record opts, stopping at the
\* first error: the record as left, the number of mutations called, the error.
RECURSIVE ApplyFrom(_, _, _)
ApplyFrom(fns, i, opts) ==
    IF i > Len(fns) THEN [opts |-> opts, n |-> i - 1, err |-> NoErr]
    ELSE LET r == Call(fns[i], opts)
         IN  IF r.err # NoErr THEN [opts |-> r.opts, n |-> i, err |-> r.err]
             ELSE ApplyFrom(fns, i + 1, r.opts)

\* The consumer of the options: it reads b.List() once and applies the
\* returned mutations to a fresh record; on an error it gets no record back.
CreateDataKey(b) ==
    LET l == List(b)
        r == ApplyFrom(Elems(arrs, l.ret), 1, DataKeyOptions)
    IN  /\ builders' = l.builders
        /\ rec' = [dk |-> b, s |-> l.ret, n |-> r.n, scratch |-> r.opts, err |-> r.err,
                   isnil |-> (r.err # NoErr),
                   args |-> IF r.err # NoErr THEN DataKeyOptions ELSE r.opts]
        /\ UNCHANGED <<arrs, ref, calls, fault, gor, raced>>

Next ==
    \/ DataKey
    \/ \E b \in Builders, v \in MasterKeys : SetMasterKey(b, v)
    \/ \E b \in Builders, v \in AltNames : SetKeyAltNames(b, v)
    \/ \E b \in Builders, v \in Materials : SetKeyMaterial(b, v)
    \/ \E b \in Builders : CreateDataKey(b)

Spec == Init /\ [][Next]_vars

\* ------------------------------------------- other code writing dk.Opts
\* Opts is an exported field: code outside this file appends a mutation of
\* its own, here one that fails.
AppendFailing(b) ==
    LET r == GoAppend(arrs, builders[b].Opts, FailingFn, b)
    IN  /\ TotalCalls < MaxCalls
        /\ builders' = [builders EXCEPT ![b].Opts = r.s]
        /\ arrs' = r.arrs
        /\ fault' = (fault \/ r.fault)
        /\ calls' = [calls EXCEPT ![b] = Append(@, FailingFn)]
        /\ UNCHANGED <<ref, rec, gor, raced>>

NextGeneric ==
    \/ Next
    \/ \E b \in Builders : AppendFailing(b)

SpecGeneric == Init /\ [][NextGeneric]_vars

\* ------------------------------------ setters called without synchronization
\* The statement dk.Opts = append(dk.Opts, f) of a setter, as the steps a
\* goroutine takes: load the three words of dk.Opts, append, store the three
\* words back.  calls[b] logs the calls on b that have returned.
InCall(g) == gor[g].pc # "idle"

Started == TotalCalls + Cardinality({g \in Goroutines : InCall(g)})

\* Goroutine g enters a setter on builder b with the closure f built.
Begin(g, b, f) ==
    /\ ~fault
    /\ ~InCall(g)
    /\ Started < MaxConcCalls
    /\ gor' = [gor EXCEPT ![g] = [pc |-> "read", dk |-> b, f |-> f, todo |-> Words, s |-> NilOpts]]
    /\ raced' = [raced EXCEPT ![b] = @ \/ \E h \in Goroutines \ {g} : InCall(h) /\ gor[h].dk = b]
    /\ UNCHANGED <<builders, arrs, ref, calls, rec, fault>>

\* Variant: the goroutine appends to the header it entered with, as a setter
\* on a copy of the builder would.
ReadWordStale(g, w) ==
    /\ ~fault
    /\ gor[g].pc = "read"
    /\ w \in gor[g].todo
    /\ gor' = [gor EXCEPT ![g].todo = @ \ {w},
                          ![g].pc = IF gor[g].todo = {w} THEN "append" ELSE "read"]
    /\ UNCHANGED <<builders, arrs, ref, calls, rec, fault, raced>>

\* Load one word of dk.Opts.
ReadWord(g, w) ==
    /\ ~fault
    /\ gor[g].pc = "read"
    /\ w \in gor[g].todo
    /\ gor' = [gor EXCEPT ![g].s[w] = builders[gor[g].dk].Opts[w],
                          ![g].todo = @ \ {w},
                          ![g].pc = IF gor[g].todo = {w} THEN "append" ELSE "read"]
    /\ UNCHANGED <<builders, arrs, ref, calls, rec, fault, raced>>

\* append(loaded header, f)
DoAppend(g) ==
    LET r == GoAppend(arrs, gor[g].s, gor[g].f, gor[g].dk)
    IN  /\ ~fault
        /\ gor[g].pc = "append"
        /\ arrs' = r.arrs
        /\ fault' = r.fault
        /\ gor' = [gor EXCEPT ![g].s = r.s, ![g].todo = Words, ![g].pc = "write"]
        /\ UNCHANGED <<builders, ref, calls, rec, raced>>

\* Store one word of dk.Opts; after the last one the setter returns dk.
WriteWord(g, w) ==
    LET dk == gor[g].dk
        last == gor[g].todo = {w}
    IN  /\ ~fault
        /\ gor[g].pc = "write"
        /\ w \in gor[g].todo
        /\ builders' = [builders EXCEPT ![dk].Opts[w] = gor[g].s[w]]
        /\ gor' = [gor EXCEPT ![g] = IF last THEN Idle ELSE [@ EXCEPT !.todo = @ \ {w}]]
        /\ calls' = IF last THEN [calls EXCEPT ![dk] = Append(@, gor[g].f)] ELSE calls
        /\ UNCHANGED <<arrs, ref, rec, fault, raced>>

\* The closure each goroutine passes: goroutines call different setters.
ClosureOf(g) ==
    CASE g % 3 = 1 -> MasterKeyFn("A")
      [] g % 3 = 2 -> KeyAltNamesFn(SliceOf(<<"b", "a", "a">>))
      [] OTHER -> KeyMaterialFn(SliceOf(<<>>))

NextConc ==
    \/ DataKey
    \/ \E g \in Goroutines, b \in Builders : Begin(g, b, ClosureOf(g))
    \/ \E g \in Goroutines, w \in Words : ReadWord(g, w)
    \/ \E g \in Goroutines : DoAppend(g)
    \/ \E g \in Goroutines, w \in Words : WriteWord(g, w)

SpecConc == Init /\ [][NextConc]_vars

\* ===================================================================
\* Properties
\* ===================================================================
\* The sequence of mutations List() returns for builder b.
Listing(b) == Elems(arrs, List(b).ret)

Sound(b) == InBounds(arrs, List(b).ret, List(b).ret.len)

SetterKinds == {"SetMasterKey", "SetKeyAltNames", "SetKeyMaterial"}

FieldOf(kind) ==
    CASE kind = "SetMasterKey" -> "MasterKey"
      [] kind = "SetKeyAltNames" -> "KeyAltNames"
      [] kind = "SetKeyMaterial" -> "KeyMaterial"

MaxOf(S) == CHOOSE i \in S : \A j \in S : j <= i

MinOf(S) == CHOOSE i \in S : \A j \in S : i <= j

Positions(log, kind) == {i \in 1..Len(log) : log[i].kind = kind}

\* The calls that had been made on the builder the consumer read, when it read it.
Listed == SubSeq(calls[rec.dk], 1, rec.s.len)

\* A step that is a call of one of the setters / that is DataKey().
SetterStep == Len(calls') = Len(calls) /\ calls' # calls

DataKeyStep == Len(calls') # Len(calls)

SampleOpts == [MasterKey : ArgMasterKeys, KeyAltNames : ArgAltNames, KeyMaterial : ArgMaterials]

\* ------------------------------------------------------------------ C1
\* C1: after every step, for every builder, List() holds exactly the
\* mutations of the setter calls made on it, as many and in call order; a
\* builder just returned by DataKey() holds none; and a step leaves each
\* builder's sequence as it was or extends it by one element at the end.
C1_ListIsCallLog ==
    [][ /\ \A b \in DOMAIN builders' :
             /\ InBounds(arrs', builders'[b].Opts, builders'[b].Opts.len)
             /\ Len(Listing(b)') = Len(calls'[b])
             /\ Listing(b)' = calls'[b]
        /\ \A b \in DOMAIN builders' \ DOMAIN builders : Listing(b)' = <<>>
        /\ \A b \in DOMAIN builders :
             \/ Listing(b)' = Listing(b)
             \/ /\ Len(Listing(b)') = Len(Listing(b)) + 1
                /\ SubSeq(Listing(b)', 1, Len(Listing(b))) = Listing(b) ]_vars

\* A builder with four setter calls of all three kinds, the last appended in
\* place, whose List() is the four mutations in call order.
C1_Witness ==
    \E b \in Builders :
        /\ Len(calls[b]) = 4
        /\ {calls[b][i].kind : i \in 1..4} = SetterKinds
        /\ List(b).ret.cap = 4
        /\ Listing(b) = calls[b]

\* ------------------------------------------------------------------ C2
\* Each closure stores its argument unchanged, whatever the argument.
VerbatimOnArgs ==
    \A opts \in SampleOpts :
        /\ \A v \in ArgMasterKeys : Call(MasterKeyFn(v), opts).opts.MasterKey = v
        /\ \A v \in ArgAltNames : Call(KeyAltNamesFn(v), opts).opts.KeyAltNames = v
        /\ \A v \in ArgMaterials : Call(KeyMaterialFn(v), opts).opts.KeyMaterial = v

\* C2: the record obtained by applying List() in order to a fresh record
\* has, in every field whose setter was called, exactly the argument of the
\* last call of that setter.
C2_LastWriterWins ==
    /\ VerbatimOnArgs
    /\ rec.dk # 0 =>
         /\ ~rec.isnil
         /\ \A k \in SetterKinds :
              Positions(Listed, k) # {} =>
                  rec.args[FieldOf(k)] = Listed[MaxOf(Positions(Listed, k))].captured

\* SetMasterKey("A"), then SetKeyAltNames(["b","a","a"]), then SetMasterKey("B"),
\* applied: MasterKey is "B" and KeyAltNames is ["b","a","a"].
C2_Witness ==
    /\ rec.dk # 0
    /\ rec.s.len >= 3
    /\ Listed[1] = MasterKeyFn("A")
    /\ Listed[2] = KeyAltNamesFn(SliceOf(<<"b", "a", "a">>))
    /\ Listed[3] = MasterKeyFn("B")
    /\ Positions(Listed, "SetMasterKey") = {1, 3}
    /\ rec.args.MasterKey = "B"
    /\ rec.args.KeyAltNames = SliceOf(<<"b", "a", "a">>)

\* ------------------------------------------------------------------ C3
\* Each closure leaves the two fields that are not its own as they were.
FrameOnArgs ==
    \A opts \in SampleOpts :
        /\ \A v \in ArgMasterKeys :
             Call(MasterKeyFn(v), opts).opts = [opts EXCEPT !.MasterKey = v]
        /\ \A v \in ArgAltNames :
             Call(KeyAltNamesFn(v), opts).opts = [opts EXCEPT !.KeyAltNames = v]
        /\ \A v \in ArgMaterials :
             Call(KeyMaterialFn(v), opts).opts = [opts EXCEPT !.KeyMaterial = v]

\* C3: after applying List() to a fresh record, every field whose setter
\* was never called holds its zero value; with no setter called at all the
\* record is the zero record.
C3_UnsetFieldsZero ==
    /\ FrameOnArgs
    /\ rec.dk # 0 =>
         /\ \A k \in SetterKinds :
              Positions(Listed, k) = {} => rec.args[FieldOf(k)] = DataKeyOptions[FieldOf(k)]
         /\ rec.s.len = 0 => rec.args = DataKeyOptions

\* SetKeyMaterial and SetMasterKey were called, SetKeyAltNames never:
\* KeyAltNames is still nil while the other two fields are set.
C3_Witness ==
    /\ rec.dk # 0
    /\ Positions(Listed, "SetKeyAltNames") = {}
    /\ Positions(Listed, "SetKeyMaterial") # {}
    /\ Positions(Listed, "SetMasterKey") # {}
    /\ rec.args.KeyAltNames = NilSlice
    /\ rec.args.KeyMaterial = SliceOf(<<>>)
    /\ rec.args.MasterKey # NilKey

\* ------------------------------------------------------------------ C4
\* C4: the reference a chain of setter calls holds is always the builder the
\* chain began with, and every call made through the chain is in that
\* builder's List().
C4_SameBuilder ==
    \A b \in Builders :
        /\ ref[b] = b
        /\ Sound(b)
        /\ Len(Listing(b)) = Len(calls[b])

\* b.SetMasterKey(x).SetKeyAltNames(y): two chained calls, still b.
C4_Witness ==
    \E b \in Builders :
        /\ Len(calls[b]) = 2
        /\ calls[b][1].kind = "SetMasterKey"
        /\ calls[b][2].kind = "SetKeyAltNames"
        /\ ref[b] = b
        /\ Len(Listing(b)) = 2

\* ------------------------------------------------------------------ C5
\* C5: a setter call changes no options record and raises no fault; it
\* appends one mutation to the sequence of the builder it is called on and
\* leaves every other builder alone.  So a record changes only in a step
\* that applies a List().
C5_SettersDeferred ==
    [][ SetterStep =>
          /\ rec' = rec
          /\ ~fault'
          /\ \E b \in Builders :
               /\ Len(calls'[b]) = Len(calls[b]) + 1
               /\ SubSeq(calls'[b], 1, Len(calls[b])) = calls[b]
               /\ Listing(b)' = Append(Listing(b), calls'[b][Len(calls'[b])])
               /\ \A c \in Builders \ {b} : builders'[c] = builders[c] /\ Listing(c)' = Listing(c) ]_vars

\* A record built when MasterKey had been set to "A" only; SetMasterKey("B")
\* was called on the same builder afterwards and the record still says "A".
C5_Witness ==
    /\ rec.dk # 0
    /\ rec.s.len < Len(calls[rec.dk])
    /\ rec.args.MasterKey = "A"
    /\ calls[rec.dk][Len(calls[rec.dk])] = MasterKeyFn("B")

\* ------------------------------------------------------------------ C6
\* C6: a step in which the consumer reads List() changes no builder and no
\* backing array; what it returns is the builder's current sequence, equal
\* to what the previous read returned when no setter ran in between; the
\* slice an earlier read returned keeps denoting the calls made up to that
\* read; and a setter called after a read still appends.
C6_ListPure ==
    [][ /\ (~SetterStep /\ ~DataKeyStep) =>
             /\ builders' = builders
             /\ arrs' = arrs
             /\ rec'.dk # 0 =>
                  /\ InBounds(arrs', rec'.s, rec'.s.len)
                  /\ Elems(arrs', rec'.s) = calls[rec'.dk]
             /\ (rec.dk # 0 /\ rec'.dk = rec.dk /\ rec.s.len = Len(calls[rec.dk])) =>
                  Elems(arrs', rec'.s) = Elems(arrs, rec.s)
        /\ rec'.dk # 0 =>
             /\ InBounds(arrs', rec'.s, rec'.s.len)
             /\ Elems(arrs', rec'.s) = SubSeq(calls'[rec'.dk], 1, rec'.s.len)
        /\ (SetterStep /\ rec.dk # 0) =>
             Len(Listing(rec.dk)') = Len(calls'[rec.dk]) ]_vars

\* List() was read when the builder held three mutations; a fourth setter
\* call then appended in place, into the array the returned slice shares.
C6_Witness ==
    /\ rec.dk # 0
    /\ rec.s.len = 3
    /\ Len(Listing(rec.dk)) = 4
    /\ List(rec.dk).ret.ptr = rec.s.ptr
    /\ Elems(arrs, rec.s) = SubSeq(calls[rec.dk], 1, 3)

\* ------------------------------------------------------------------ C7
\* C7: applying the slice the consumer holds to another fresh record gives,
\* at any later time, the record and error it gave before; the result is
\* the one the logged calls determine; builders with the same calls give
\* the same result; and the builder still holds its calls after the
\* application.
C7_Deterministic ==
    /\ rec.dk # 0 =>
         /\ InBounds(arrs, rec.s, rec.s.len)
         /\ LET again == ApplyFrom(Elems(arrs, rec.s), 1, DataKeyOptions)
            IN  /\ again.opts = rec.scratch
                /\ again.err = rec.err
                /\ again.n = rec.n
                /\ ~rec.isnil /\ rec.args = again.opts
         /\ rec.args = ApplyFrom(Listed, 1, DataKeyOptions).opts
         /\ Sound(rec.dk) /\ Listing(rec.dk) = calls[rec.dk]
    /\ \A b1, b2 \in Builders :
         (Sound(b1) /\ Sound(b2) /\ calls[b1] = calls[b2] /\ Len(calls[b1]) = Len(Listing(b1))) =>
             ApplyFrom(Listing(b1), 1, DataKeyOptions) = ApplyFrom(Listing(b2), 1, DataKeyOptions)

\* The consumer applied a builder's List() after SetMasterKey("A"); the
\* builder has since been given SetMasterKey("B"), and a second builder
\* has received the same two calls.
C7_Witness ==
    /\ rec.dk # 0
    /\ rec.s.len = 1
    /\ rec.args.MasterKey = "A"
    /\ Len(calls[rec.dk]) = 2
    /\ calls[rec.dk][2] = MasterKeyFn("B")
    /\ \E b \in Builders \ {rec.dk} : calls[b] = calls[rec.dk]

\* ------------------------------------------------------------------ C8
\* No closure of the three setters returns an error, whatever it captured
\* and whatever record it is called on.
NoSetterFails ==
    \A opts \in SampleOpts :
        /\ \A v \in ArgMasterKeys : Call(MasterKeyFn(v), opts).err = NoErr
        /\ \A v \in ArgAltNames : Call(KeyAltNamesFn(v), opts).err = NoErr
        /\ \A v \in ArgMaterials : Call(KeyMaterialFn(v), opts).err = NoErr

\* C8: every mutation in a builder's List() returns nil when called, and an
\* application of a List() calls all of its mutations and ends without error.
C8_SettersNeverFail ==
    /\ NoSetterFails
    /\ \A b \in Builders :
         /\ Sound(b)
         /\ \A i \in 1..Len(Listing(b)) :
              /\ Call(Listing(b)[i], DataKeyOptions).err = NoErr
              /\ Call(Listing(b)[i], rec.scratch).err = NoErr
    /\ rec.dk # 0 => (rec.err = NoErr /\ rec.n = rec.s.len /\ ~rec.isnil)

\* Four mutations, of all three setters and with an empty key material,
\* all applied without error.
C8_Witness ==
    /\ rec.dk # 0
    /\ rec.s.len = 4
    /\ rec.n = 4
    /\ {Listed[i].kind : i \in 1..4} = SetterKinds
    /\ KeyMaterialFn(SliceOf(<<>>)) \in {Listed[i] : i \in 1..4}
    /\ rec.err = NoErr

\* ------------------------------------------------------------------ C9
\* C9: when the applied sequence contains a failing mutation, the first one
\* is the last mutation called, the record is as the mutations before it
\* left it, and the consumer gets an error and no record; without a failing
\* mutation all are called and the consumer gets the record.
C9_HaltOnFirstError ==
    rec.dk # 0 =>
        LET bad == Positions(Listed, "fail")
        IN  IF bad = {}
            THEN rec.err = NoErr /\ rec.n = rec.s.len /\ ~rec.isnil /\ rec.args = rec.scratch
            ELSE /\ rec.n = MinOf(bad)
                 /\ rec.err # NoErr
                 /\ rec.isnil
                 /\ rec.scratch = ApplyFrom(SubSeq(Listed, 1, MinOf(bad) - 1), 1, DataKeyOptions).opts

\* SetMasterKey("A"), a failing mutation, SetKeyAltNames(...): application
\* stopped at the second, KeyAltNames was never written, no record returned.
C9_Witness ==
    /\ rec.dk # 0
    /\ rec.s.len = 3
    /\ Listed[1] = MasterKeyFn("A")
    /\ Listed[2] = FailingFn
    /\ Listed[3].kind = "SetKeyAltNames"
    /\ rec.n = 2
    /\ rec.scratch.MasterKey = "A"
    /\ rec.scratch.KeyAltNames = NilSlice
    /\ rec.isnil
    /\ rec.err # NoErr

\* ----------------------------------------------------------------- C10
Quiet(b) == \A g \in Goroutines : ~(InCall(g) /\ gor[g].dk = b)

\* C10: a builder on which no two setter calls have overlapped holds, when
\* no call on it is running, exactly the mutations of the calls that
\* returned, in order, whatever runs on other builders; and without any
\* overlap there is no fault.
C10_NoLossWithoutRace ==
    /\ \A b \in Builders :
         (~raced[b] /\ Quiet(b)) => (Sound(b) /\ Listing(b) = calls[b])
    /\ (\A b \in Builders : ~raced[b]) => ~fault

\* Two overlapping setter calls on one builder have both returned and
\* List() holds one mutation: an append was lost.
C10_Witness ==
    \E b \in Builders :
        /\ raced[b]
        /\ \A g \in Goroutines : ~InCall(g)
        /\ ~fault
        /\ Len(calls[b]) = 2
        /\ List(b).ret.len = 1

====
